---- MODULE Spec2Model ----
(***************************************************************************)
(* Output-driver resolution and SQL comment removal of                     *)
(* apps/commonutils.cpp.                                                   *)
(*                                                                         *)
(* C strings are sequences of one-character strings, so that the           *)
(* case-insensitive comparisons (EQUAL, STARTS_WITH_CI), the               *)
(* case-sensitive ones (CPLString::endsWith, operator==) and the           *)
(* tokenizers are computed character by character.                         *)
(***************************************************************************)
EXTENDS Integers, Sequences, FiniteSets, TLC

VARIABLES
    registry,           \* the driver manager's ordered list of driver handles
    lastCall,           \* which entry point ran last
    pszDestFilename,    \* argument of the last call
    nFlagRasterVector,  \* argument of the last GetOutputDriversFor call
    osExt,              \* GetOutputDriversFor's osExt after lines 74-86
    aoRaw,              \* aoDriverList after the loop of lines 88-127
    aoDriverList,       \* value returned by GetOutputDriversFor
    osFormat,           \* value returned by GetOutputDriverForRaster
    nFailures,          \* CPLError(CE_Failure, ...) calls of the last call
    aoWarnings,         \* CPLError(CE_Warning, ...) calls of the last call
    aoDebug,            \* CPLDebug calls of the last call
    osInput,            \* argument of GDALRemoveSQLComments
    osSQL,              \* value returned by GDALRemoveSQLComments
    sqlCalled           \* GDALRemoveSQLComments has returned

vars == <<registry, lastCall, pszDestFilename, nFlagRasterVector, osExt,
          aoRaw, aoDriverList, osFormat, nFailures, aoWarnings, aoDebug,
          osInput, osSQL, sqlCalled>>

drvVars == <<registry, lastCall, pszDestFilename, nFlagRasterVector, osExt,
             aoRaw, aoDriverList, osFormat, nFailures, aoWarnings, aoDebug>>

sqlVars == <<osInput, osSQL, sqlCalled>>

(***************************************************************************)
(* Bounds.                                                                 *)
(***************************************************************************)
MaxDrivers == 3

MaxSQLLen == 5

(***************************************************************************)
(* Characters and the C string helpers the source calls.                   *)
(***************************************************************************)
LowerCh ==
    <<"a","b","c","d","e","f","g","h","i","j","k","l","m",
      "n","o","p","q","r","s","t","u","v","w","x","y","z">>

UpperCh ==
    <<"A","B","C","D","E","F","G","H","I","J","K","L","M",
      "N","O","P","Q","R","S","T","U","V","W","X","Y","Z">>

Letters == { LowerCh[k] : k \in 1..Len(LowerCh) } \cup { UpperCh[k] : k \in 1..Len(UpperCh) }

UpperOf == [c \in Letters |->
              IF \E k \in 1..Len(LowerCh) : LowerCh[k] = c
              THEN UpperCh[CHOOSE k \in 1..Len(LowerCh) : LowerCh[k] = c]
              ELSE c]

toupper(c) == IF c \in Letters THEN UpperOf[c] ELSE c

\* EQUAL(a, b): strcasecmp(a, b) == 0
EQUAL(a, b) ==
    /\ Len(a) = Len(b)
    /\ \A k \in 1..Len(a) : toupper(a[k]) = toupper(b[k])

\* STARTS_WITH_CI(a, b): strncasecmp(a, b, strlen(b)) == 0
STARTS_WITH_CI(a, b) ==
    /\ Len(b) <= Len(a)
    /\ \A k \in 1..Len(b) : toupper(a[k]) = toupper(b[k])

\* CPLString::endsWith: exact comparison of the trailing characters
endsWith(s, suffix) ==
    /\ Len(s) >= Len(suffix)
    /\ SubSeq(s, Len(s) - Len(suffix) + 1, Len(s)) = suffix

\* absent metadata item / null pointer
NULL == <<"NULL">>

RECURSIVE TokenizeFrom(_, _, _, _, _)
TokenizeFrom(str, delims, k, cur, acc) ==
    IF k > Len(str)
    THEN IF cur = <<>> THEN acc ELSE Append(acc, cur)
    ELSE IF str[k] \in delims
         THEN TokenizeFrom(str, delims, k + 1, <<>>,
                           IF cur = <<>> THEN acc ELSE Append(acc, cur))
         ELSE TokenizeFrom(str, delims, k + 1, Append(cur, str[k]), acc)

\* CSLTokenizeString(str): split at spaces, empty tokens dropped
CSLTokenizeString(str) == TokenizeFrom(str, {" "}, 1, <<>>, <<>>)

\* CSLTokenizeStringComplex(str, delims, FALSE, FALSE)
CSLTokenizeStringComplex(str, delims) == TokenizeFrom(str, delims, 1, <<>>, <<>>)

\* start of the last path component
RECURSIVE CPLFindFilenameStart(_, _)
CPLFindFilenameStart(path, k) ==
    IF k > 0 /\ path[k] # "/" /\ path[k] # "\\"
    THEN CPLFindFilenameStart(path, k - 1)
    ELSE k

\* position of the last "." of the last path component (0-based, as in C),
\* or the start of the component when it has none
RECURSIVE ExtStart(_, _, _)
ExtStart(path, iFileStart, k) ==
    IF k > iFileStart /\ (k = Len(path) \/ path[k + 1] # ".")
    THEN ExtStart(path, iFileStart, k - 1)
    ELSE k

\* CPLGetExtension: the characters after the last "." of the last path
\* component, in the case they have in the name; "" when there is none
CPLGetExtension(path) ==
    IF path = <<>> THEN <<>>
    ELSE LET iFileStart == CPLFindFilenameStart(path, Len(path))
             iExtStart  == ExtStart(path, iFileStart, Len(path))
         IN  IF iExtStart = iFileStart
             THEN <<>>
             ELSE SubSeq(path, iExtStart + 2, Len(path))

(***************************************************************************)
(* Drivers.  A driver is its short name and the metadata items the         *)
(* resolution reads: the DCAP_* items are present or absent, DMD_EXTENSIONS*)
(* is a space-separated list or absent, DMD_CONNECTION_PREFIX a string or  *)
(* absent.                                                                 *)
(***************************************************************************)
Driver(name, caps, exts, prefix) ==
    [ShortName |-> name, caps |-> caps,
     DMD_EXTENSIONS |-> exts, DMD_CONNECTION_PREFIX |-> prefix]

\* GDALGetMetadataItem(hDriver, GDAL_DCAP_x, nullptr) != nullptr
HasItem(hDriver, item) == item \in hDriver.caps

DriverPool ==
    << Driver(<<"G","T","i","f","f">>,
              {"DCAP_CREATE", "DCAP_CREATECOPY", "DCAP_RASTER"},
              <<"t","i","f"," ","t","i","f","f">>, NULL),
       Driver(<<"C","O","G">>,
              {"DCAP_CREATECOPY", "DCAP_RASTER"},
              <<"t","i","f"," ","t","i","f","f">>, NULL),
       Driver(<<"G","M","T">>,
              {"DCAP_CREATECOPY", "DCAP_RASTER"},
              <<"n","c">>, NULL),
       Driver(<<"n","e","t","C","D","F">>,
              {"DCAP_CREATE", "DCAP_CREATECOPY", "DCAP_RASTER", "DCAP_VECTOR"},
              <<"n","c">>, <<"N","E","T","C","D","F",":">>),
       Driver(<<"N","E","T","C","D","F">>,
              {"DCAP_CREATECOPY", "DCAP_RASTER"},
              <<"n","c">>, NULL),
       Driver(<<"S","H","P">>,
              {"DCAP_CREATE", "DCAP_VECTOR"},
              <<"s","h","p"," ","s","h","p",".","z","i","p">>, NULL),
       Driver(<<"P","G","R">>,
              {"DCAP_CREATECOPY", "DCAP_RASTER"},
              NULL, <<"P","G",":">>),
       Driver(<<"V","T","F">>,
              {"DCAP_RASTER", "DCAP_VECTOR", "DCAP_VECTOR_TRANSLATE_FROM"},
              <<"z","i","p"," ","t","i","f"," ","s","h","p">>, <<"P","G",":">>) >>

\* a driver handle is the position of the driver in DriverPool; a registry
\* is a sequence of at most n distinct handles, in any order
RECURSIVE RegistriesUpTo(_)
RegistriesUpTo(n) ==
    IF n = 0 THEN {<<>>}
    ELSE LET shorter == RegistriesUpTo(n - 1)
         IN  shorter \cup
             { Append(x[1], x[2]) :
                 x \in { y \in shorter \X (1..Len(DriverPool)) :
                           /\ Len(y[1]) = n - 1
                           /\ \A k \in 1..Len(y[1]) : y[1][k] # y[2] } }

\* GDALGetDriverCount() and GDALGetDriver(i - 1)
GDALGetDriverCount(reg) == Len(reg)

GDALGetDriver(reg, i) == DriverPool[reg[i]]

Registries == RegistriesUpTo(MaxDrivers)

Destinations ==
    { <<"a",".","t","i","f">>,
      <<"A",".","T","I","F">>,
      <<"a",".","n","c">>,
      <<"a",".","N","C">>,
      <<"n","o","e","x","t">>,
      <<"a",".","x","y","z">>,
      <<>>,
      <<"d",".","d","/","f">>,
      <<"a",".","z","i","p">>,
      <<"a",".","s","h","p",".","z","i","p">>,
      <<"a",".","S","H","P",".","Z","I","P">>,
      <<"a",".","S","H","P",".","Z","i","p">>,
      <<"a",".","g","p","k","g",".","z","i","p">>,
      <<"P","G",":","d","b">>,
      <<"p","g",":","a",".","t","i","f">>,
      <<"n","e","t","c","d","f",":","a",".","n","c">> }

FlagSets == SUBSET {"GDAL_OF_RASTER", "GDAL_OF_VECTOR"}

(***************************************************************************)
(* DoesDriverHandleExtension and GetOutputDriversFor.                      *)
(***************************************************************************)
DoesDriverHandleExtension(hDriver, pszExt) ==
    LET pszDriverExtensions == hDriver.DMD_EXTENSIONS
    IN  /\ pszDriverExtensions # NULL
        /\ LET papszTokens == CSLTokenizeString(pszDriverExtensions)
           IN  \E j \in 1..Len(papszTokens) : EQUAL(pszExt, papszTokens[j])

\* osExt of GetOutputDriversFor after the two compound-extension cases
ResolveExt(dest) ==
    LET ext == CPLGetExtension(dest)
    IN  IF /\ EQUAL(ext, <<"z","i","p">>)
           /\ \/ endsWith(dest, <<".","s","h","p",".","z","i","p">>)
              \/ endsWith(dest, <<".","S","H","P",".","Z","I","P">>)
        THEN <<"s","h","p",".","z","i","p">>
        ELSE IF /\ EQUAL(ext, <<"z","i","p">>)
                /\ \/ endsWith(dest, <<".","g","p","k","g",".","z","i","p">>)
                   \/ endsWith(dest, <<".","G","P","K","G",".","Z","I","P">>)
             THEN <<"g","p","k","g",".","z","i","p">>
             ELSE ext

\* bOk of the loop body
\* (variant: the VECTOR_TRANSLATE_FROM branch is missing)
M_IsDriverOk_NoTranslateFrom(hDriver, flags) ==
    /\ HasItem(hDriver, "DCAP_CREATE") \/ HasItem(hDriver, "DCAP_CREATECOPY")
    /\ \/ "GDAL_OF_RASTER" \in flags /\ HasItem(hDriver, "DCAP_RASTER")
       \/ "GDAL_OF_VECTOR" \in flags /\ HasItem(hDriver, "DCAP_VECTOR")

IsDriverOk(hDriver, flags) ==
    IF /\ HasItem(hDriver, "DCAP_CREATE") \/ HasItem(hDriver, "DCAP_CREATECOPY")
       /\ \/ "GDAL_OF_RASTER" \in flags /\ HasItem(hDriver, "DCAP_RASTER")
          \/ "GDAL_OF_VECTOR" \in flags /\ HasItem(hDriver, "DCAP_VECTOR")
    THEN TRUE
    ELSE /\ HasItem(hDriver, "DCAP_VECTOR_TRANSLATE_FROM")
         /\ "GDAL_OF_VECTOR" \in flags

\* one iteration of the loop over the drivers
\* (variant: the prefix test is not in the else branch)
M_DriverStep_BothBranches(list, hDriver, dest, ext, flags) ==
    IF IsDriverOk(hDriver, flags)
    THEN LET byExt == IF ext # <<>> /\ DoesDriverHandleExtension(hDriver, ext)
                      THEN Append(list, hDriver.ShortName)
                      ELSE list
             pszPrefix == hDriver.DMD_CONNECTION_PREFIX
         IN  IF pszPrefix # NULL /\ STARTS_WITH_CI(dest, pszPrefix)
             THEN Append(byExt, hDriver.ShortName)
             ELSE byExt
    ELSE list

DriverStep(list, hDriver, dest, ext, flags) ==
    IF IsDriverOk(hDriver, flags)
    THEN IF ext # <<>> /\ DoesDriverHandleExtension(hDriver, ext)
         THEN Append(list, hDriver.ShortName)
         ELSE LET pszPrefix == hDriver.DMD_CONNECTION_PREFIX
              IN  IF pszPrefix # NULL /\ STARTS_WITH_CI(dest, pszPrefix)
                  THEN Append(list, hDriver.ShortName)
                  ELSE list
    ELSE list

RECURSIVE DriverLoop(_, _, _, _, _, _)
DriverLoop(reg, dest, ext, flags, i, list) ==
    IF i > GDALGetDriverCount(reg) THEN list
    ELSE DriverLoop(reg, dest, ext, flags, i + 1,
                    DriverStep(list, GDALGetDriver(reg, i), dest, ext, flags))

\* the GMT / netCDF reordering after the loop
\* (variant: the size test is ">= 2")
M_NcOverride_AnySize(ext, list) ==
    IF /\ EQUAL(ext, <<"n","c">>)
       /\ Len(list) >= 2
       /\ EQUAL(list[1], <<"G","M","T">>)
       /\ EQUAL(list[2], <<"N","E","T","C","D","F">>)
    THEN << <<"N","E","T","C","D","F">>, <<"G","M","T">> >>
    ELSE list

NcOverride(ext, list) ==
    IF /\ EQUAL(ext, <<"n","c">>)
       /\ Len(list) = 2
       /\ EQUAL(list[1], <<"G","M","T">>)
       /\ EQUAL(list[2], <<"N","E","T","C","D","F">>)
    THEN << <<"N","E","T","C","D","F">>, <<"G","M","T">> >>
    ELSE list

GetOutputDriversFor(reg, dest, flags) ==
    LET ext == ResolveExt(dest)
        raw == DriverLoop(reg, dest, ext, flags, 1, <<>>)
    IN  [osExt |-> ext, raw |-> raw, list |-> NcOverride(ext, raw)]

(***************************************************************************)
(* GetOutputDriverForRaster.                                               *)
(***************************************************************************)
\* the call reports CE_Failure and returns ""
\* (variant: the extension is not consulted)
M_RasterFails_IgnoresExt(aoDrivers, ext) == aoDrivers = <<>>

RasterFails(aoDrivers, ext) == aoDrivers = <<>> /\ ext # <<>>

\* osFormat at the return statement of a call that does not fail
\* (variant: aoDrivers[1] is taken when there are several)
M_RasterFormat_Second(aoDrivers) ==
    IF aoDrivers = <<>> THEN <<"G","T","i","f","f">>
    ELSE IF Len(aoDrivers) > 1 THEN aoDrivers[2] ELSE aoDrivers[1]

RasterFormat(aoDrivers) ==
    IF aoDrivers = <<>> THEN <<"G","T","i","f","f">> ELSE aoDrivers[1]

\* the CE_Warning messages of one call
\* (variant: no exception for GTiff, COG)
M_RasterWarnings_NoException(aoDrivers, ext) ==
    IF aoDrivers # <<>> /\ Len(aoDrivers) > 1
    THEN << [ext |-> ext, driver |-> aoDrivers[1]] >>
    ELSE <<>>

RasterWarnings(aoDrivers, ext) ==
    IF /\ aoDrivers # <<>>
       /\ Len(aoDrivers) > 1
       /\ ~ (aoDrivers[1] = <<"G","T","i","f","f">> /\ aoDrivers[2] = <<"C","O","G">>)
    THEN << [ext |-> ext, driver |-> aoDrivers[1]] >>
    ELSE <<>>

(***************************************************************************)
(* GDALRemoveSQLComments.                                                  *)
(***************************************************************************)
NoQuote == "NUL"

SQLChars == {"a", "-", "'", "\"", "\n", "\r"}

SQLInputs == UNION { [1..n -> SQLChars] : n \in 0..MaxSQLLen }

\* pszLine[i], with the terminating NUL past the end (i is 0-based)
CharAt(pszLine, i) == IF i < Len(pszLine) THEN pszLine[i + 1] ELSE NoQuote

\* the inner for loop: the value of i when it ends or breaks
RECURSIVE ScanLine(_, _, _)
ScanLine(pszLine, i, chQuote) ==
    IF CharAt(pszLine, i) = NoQuote THEN i
    ELSE IF chQuote # NoQuote
         THEN IF CharAt(pszLine, i) = chQuote
              THEN IF CharAt(pszLine, i + 1) = chQuote
                   THEN ScanLine(pszLine, i + 2, chQuote)
                   ELSE ScanLine(pszLine, i + 1, NoQuote)
              ELSE ScanLine(pszLine, i + 1, chQuote)
         ELSE IF CharAt(pszLine, i) = "'" \/ CharAt(pszLine, i) = "\""
              THEN ScanLine(pszLine, i + 1, CharAt(pszLine, i))
              ELSE IF CharAt(pszLine, i) = "-" /\ CharAt(pszLine, i + 1) = "-"
                   THEN i
                   ELSE ScanLine(pszLine, i + 1, chQuote)

\* the outer loop over the lines; chQuote starts at 0 on every line
RECURSIVE LineLoop(_, _, _)
LineLoop(papszLines, n, sql) ==
    IF n > Len(papszLines) THEN sql
    ELSE LET pszLine == papszLines[n]
             i == ScanLine(pszLine, 0, NoQuote)
         IN  LineLoop(papszLines, n + 1,
                      (IF i > 0 THEN sql \o SubSeq(pszLine, 1, i) ELSE sql)
                          \o <<" ">>)

GDALRemoveSQLComments(input) ==
    LineLoop(CSLTokenizeStringComplex(input, {"\r", "\n"}), 1, <<>>)

(***************************************************************************)
(* The state machine: the registry is populated and the destination chosen *)
(* before any call; each action is one call of an entry point, and the     *)
(* variables hold the arguments, results and diagnostics of the latest     *)
(* call.                                                                   *)
(***************************************************************************)
Init ==
    /\ registry \in Registries
    /\ lastCall = "none"
    /\ pszDestFilename \in Destinations
    /\ nFlagRasterVector = {}
    /\ osExt = <<>>
    /\ aoRaw = <<>>
    /\ aoDriverList = <<>>
    /\ osFormat = <<>>
    /\ nFailures = 0
    /\ aoWarnings = <<>>
    /\ aoDebug = <<>>
    /\ osInput = <<>>
    /\ osSQL = <<>>
    /\ sqlCalled = FALSE

CallGetOutputDriversFor ==
    \E flags \in FlagSets :
        \E r \in {GetOutputDriversFor(registry, pszDestFilename, flags)} :
            /\ lastCall' = "GetOutputDriversFor"
            /\ nFlagRasterVector' = flags
            /\ osExt' = r.osExt
            /\ aoRaw' = r.raw
            /\ aoDriverList' = r.list
            /\ osFormat' = <<>>
            /\ nFailures' = 0
            /\ aoWarnings' = <<>>
            /\ aoDebug' = <<>>
            /\ UNCHANGED <<registry, pszDestFilename, osInput, osSQL, sqlCalled>>

CallGetOutputDriverForRaster ==
    \E r \in {GetOutputDriversFor(registry, pszDestFilename, {"GDAL_OF_RASTER"})} :
        LET ext == CPLGetExtension(pszDestFilename)
            failed == RasterFails(r.list, ext)
            format == IF failed THEN <<>> ELSE RasterFormat(r.list)
        IN  /\ lastCall' = "GetOutputDriverForRaster"
            /\ nFlagRasterVector' = {"GDAL_OF_RASTER"}
            /\ osExt' = r.osExt
            /\ aoRaw' = r.raw
            /\ aoDriverList' = r.list
            /\ osFormat' = format
            /\ nFailures' = IF failed THEN 1 ELSE 0
            /\ aoWarnings' = IF failed THEN <<>> ELSE RasterWarnings(r.list, ext)
            /\ aoDebug' = IF failed THEN <<>> ELSE <<format>>
            /\ UNCHANGED <<registry, pszDestFilename, osInput, osSQL, sqlCalled>>

Next ==
    \/ CallGetOutputDriversFor
    \/ CallGetOutputDriverForRaster

Spec == Init /\ [][Next]_vars

SQLInit ==
    /\ registry = <<>>
    /\ lastCall = "none"
    /\ pszDestFilename = <<>>
    /\ nFlagRasterVector = {}
    /\ osExt = <<>>
    /\ aoRaw = <<>>
    /\ aoDriverList = <<>>
    /\ osFormat = <<>>
    /\ nFailures = 0
    /\ aoWarnings = <<>>
    /\ aoDebug = <<>>
    /\ osInput \in SQLInputs
    /\ osSQL = <<>>
    /\ sqlCalled = FALSE

CallGDALRemoveSQLComments ==
    /\ osSQL' = GDALRemoveSQLComments(osInput)
    /\ sqlCalled' = TRUE
    /\ UNCHANGED <<osInput>>
    /\ UNCHANGED drvVars

SQLNext == CallGDALRemoveSQLComments

SpecSQL == SQLInit /\ [][SQLNext]_vars

(***************************************************************************)
(* Vocabulary of the properties.                                           *)
(***************************************************************************)
LowerOf == [c \in Letters |->
              IF \E k \in 1..Len(UpperCh) : UpperCh[k] = c
              THEN LowerCh[CHOOSE k \in 1..Len(UpperCh) : UpperCh[k] = c]
              ELSE c]

ToLower(str) == [k \in 1..Len(str) |-> IF str[k] \in Letters THEN LowerOf[str[k]] ELSE str[k]]

\* the normalized, lowercase extension token of the latest call
ExtensionToken == ToLower(osExt)

EndsWithIgnoringCase(str, suffix) ==
    /\ Len(str) >= Len(suffix)
    /\ ToLower(SubSeq(str, Len(str) - Len(suffix) + 1, Len(str))) = ToLower(suffix)

ExtensionSet(d) ==
    IF d.DMD_EXTENSIONS = NULL THEN {}
    ELSE LET toks == CSLTokenizeString(d.DMD_EXTENSIONS)
         IN  { ToLower(toks[k]) : k \in 1..Len(toks) }

Called == lastCall # "none"

RasterCalled == lastCall = "GetOutputDriverForRaster"

RasterRequested == "GDAL_OF_RASTER" \in nFlagRasterVector

VectorRequested == "GDAL_OF_VECTOR" \in nFlagRasterVector

Names(list) == { list[k] : k \in 1..Len(list) }

\* condition (a): the driver can produce what is requested
CapabilityOk(d) ==
    \/ /\ "DCAP_CREATE" \in d.caps \/ "DCAP_CREATECOPY" \in d.caps
       /\ \/ RasterRequested /\ "DCAP_RASTER" \in d.caps
          \/ VectorRequested /\ "DCAP_VECTOR" \in d.caps
    \/ VectorRequested /\ "DCAP_VECTOR_TRANSLATE_FROM" \in d.caps

ExtensionMatches(d) ==
    ExtensionToken # <<>> /\ ExtensionToken \in ExtensionSet(d)

PrefixMatches(d) ==
    /\ d.DMD_CONNECTION_PREFIX # NULL
    /\ Len(d.DMD_CONNECTION_PREFIX) <= Len(pszDestFilename)
    /\ ToLower(SubSeq(pszDestFilename, 1, Len(d.DMD_CONNECTION_PREFIX)))
           = ToLower(d.DMD_CONNECTION_PREFIX)

\* condition (b): the destination designates the driver
DestinationOk(d) == ExtensionMatches(d) \/ PrefixMatches(d)

RegistryDrivers == { DriverPool[registry[k]] : k \in 1..Len(registry) }

ShortNameAt(i) == DriverPool[registry[i]].ShortName

NoDuplicates(list) ==
    \A k, l \in 1..Len(list) : k # l => list[k] # list[l]

\* the names of list are names of the registry, in the registry's order
InRegistryOrder(list) ==
    /\ \A k \in 1..Len(list) : \E i \in 1..Len(registry) : ShortNameAt(i) = list[k]
    /\ \A k, l \in 1..Len(list) :
          k < l => \E i, j \in 1..Len(registry) :
                      /\ i < j
                      /\ ShortNameAt(i) = list[k]
                      /\ ShortNameAt(j) = list[l]

\* the raw match is GMT then netCDF, in any letter case, for extension nc
NcPairIgnoringCase ==
    /\ ExtensionToken = <<"n","c">>
    /\ Len(aoRaw) = 2
    /\ ToLower(aoRaw[1]) = <<"g","m","t">>
    /\ ToLower(aoRaw[2]) = <<"n","e","t","c","d","f">>

(***************************************************************************)
(* C1: a driver is in the raw match result exactly when it satisfies the   *)
(* capability condition (a) and the extension-or-prefix condition (b).     *)
(***************************************************************************)
C1_MatchIffCapabilityAndDestination ==
    Called =>
        \A d \in RegistryDrivers :
            (d.ShortName \in Names(aoRaw)) <=> (CapabilityOk(d) /\ DestinationOk(d))

\* a driver included by its prefix alone, next to one that is designated by
\* the destination but lacks the capability, and one the other way round
C1_Witness ==
    /\ Called
    /\ \E d \in RegistryDrivers :
          d.ShortName \in Names(aoRaw) /\ ~ExtensionMatches(d) /\ PrefixMatches(d)
    /\ \E d \in RegistryDrivers :
          d.ShortName \notin Names(aoRaw) /\ DestinationOk(d) /\ ~CapabilityOk(d)
    /\ \E d \in RegistryDrivers :
          d.ShortName \notin Names(aoRaw) /\ ~DestinationOk(d) /\ CapabilityOk(d)

(***************************************************************************)
(* C2: for a destination ending in ".shp.zip" in any letter case the       *)
(* extension token is "shp.zip", and for ".gpkg.zip" in any letter case it *)
(* is "gpkg.zip".                                                          *)
(***************************************************************************)
C2_CompoundTokenAnyCase ==
    Called =>
        /\ EndsWithIgnoringCase(pszDestFilename, <<".","s","h","p",".","z","i","p">>)
              => ExtensionToken = <<"s","h","p",".","z","i","p">>
        /\ EndsWithIgnoringCase(pszDestFilename, <<".","g","p","k","g",".","z","i","p">>)
              => ExtensionToken = <<"g","p","k","g",".","z","i","p">>

C4_FailsIffEmptyMatchAndExtension ==
    RasterCalled =>
        /\ nFlagRasterVector = {"GDAL_OF_RASTER"}
        /\ nFailures \in {0, 1}
        /\ nFailures = 1 <=> (aoDriverList = <<>> /\ ExtensionToken # <<>>)
        /\ nFailures = 1 => osFormat = <<>>
        /\ nFailures = 0 => osFormat # <<>>

C4_Witness ==
    /\ RasterCalled
    /\ registry = <<>>
    /\ pszDestFilename = <<"a",".","x","y","z">>
    /\ nFailures = 1

(***************************************************************************)
(* C5: a successful raster resolution returns "GTiff" when the match       *)
(* result is empty (the destination then has no extension) and the first   *)
(* name of the match result otherwise.                                     *)
(***************************************************************************)
C5_ReturnsDefaultOrFirst ==
    (RasterCalled /\ nFailures = 0) =>
        /\ aoDriverList = <<>> =>
              osFormat = <<"G","T","i","f","f">> /\ ExtensionToken = <<>>
        /\ aoDriverList # <<>> => osFormat = aoDriverList[1]

\* the default is returned although the registry has no driver of that name
C5_Witness ==
    /\ RasterCalled
    /\ nFailures = 0
    /\ aoDriverList = <<>>
    /\ osFormat = <<"G","T","i","f","f">>
    /\ registry # <<>>
    /\ \A d \in RegistryDrivers : d.ShortName # <<"G","T","i","f","f">>

(***************************************************************************)
(* C6: one raster resolution warns never for a match result of size 0 or 1 *)
(* or one that starts with "GTiff", "COG"; and exactly once, naming the    *)
(* first entry, for any other match result.                                *)
(***************************************************************************)
C6_WarningCount ==
    RasterCalled =>
        IF \/ Len(aoDriverList) <= 1
           \/ /\ aoDriverList[1] = <<"G","T","i","f","f">>
              /\ aoDriverList[2] = <<"C","O","G">>
        THEN aoWarnings = <<>>
        ELSE Len(aoWarnings) = 1 /\ aoWarnings[1].driver = aoDriverList[1]

\* GTiff and COG followed by a further entry
C6_Witness ==
    /\ RasterCalled
    /\ Len(aoDriverList) = 3
    /\ aoDriverList[1] = <<"G","T","i","f","f">>
    /\ aoDriverList[2] = <<"C","O","G">>
    /\ aoWarnings = <<>>

(***************************************************************************)
(* C7: the result holds each name at most once, and outside the GMT/netCDF *)
(* case its names are in registry order.                                   *)
(***************************************************************************)
C7_NoDuplicatesRegistryOrder ==
    Called =>
        /\ NoDuplicates(aoDriverList)
        /\ ~NcPairIgnoringCase => InRegistryOrder(aoDriverList)

\* a driver designated by the extension and by the prefix at once
C7_Witness ==
    /\ Called
    /\ Len(aoDriverList) >= 2
    /\ \E d \in RegistryDrivers :
          /\ d.ShortName \in Names(aoDriverList)
          /\ ExtensionMatches(d)
          /\ PrefixMatches(d)

(***************************************************************************)
(* C9: every returned name is character for character the short name of a  *)
(* registry driver that satisfies conditions (a) and (b).                  *)
(***************************************************************************)
C9_NamesAreRegistryShortNames ==
    Called =>
        \A k \in 1..Len(aoDriverList) :
            \E d \in RegistryDrivers :
                /\ d.ShortName = aoDriverList[k]
                /\ CapabilityOk(d)
                /\ DestinationOk(d)

(***************************************************************************)
(* C10: a "--" inside a quoted literal never starts a comment, also when   *)
(* the literal was opened on an earlier line.  Quoting is followed here    *)
(* over the whole input, line breaks included: when no "--" of the input   *)
(* lies outside every literal, nothing is cut, and the output is the input *)
(* with its line breaks turned into separators.                            *)
(***************************************************************************)
RECURSIVE CommentOutsideLiteral(_, _, _)
CommentOutsideLiteral(input, k, quote) ==
    IF k > Len(input) THEN FALSE
    ELSE LET c == input[k]
             n == IF k < Len(input) THEN input[k + 1] ELSE NoQuote
         IN  IF quote # NoQuote
             THEN IF c = quote
                  THEN IF n = quote
                       THEN CommentOutsideLiteral(input, k + 2, quote)
                       ELSE CommentOutsideLiteral(input, k + 1, NoQuote)
                  ELSE CommentOutsideLiteral(input, k + 1, quote)
             ELSE IF c \in {"'", "\""}
                  THEN CommentOutsideLiteral(input, k + 1, c)
                  ELSE IF c = "-" /\ n = "-"
                       THEN TRUE
                       ELSE CommentOutsideLiteral(input, k + 1, NoQuote)

Without(str, chars) == SelectSeq(str, LAMBDA c : c \notin chars)

C10_QuotedDashesKeptAcrossLines ==
    (sqlCalled /\ ~CommentOutsideLiteral(osInput, 1, NoQuote)) =>
        Without(osSQL, {" "}) = Without(osInput, {"\r", "\n"})
====
